---- MODULE Spec2Model ----
(***************************************************************************)
(* Notes backend: the SQLite table `notes`, the repository functions that  *)
(* read and write it, the pydantic field constraints and the five routes.  *)
(* Every request is served by a worker thread; a repository function that  *)
(* opens several connections (create_note, update_note) is a sequence of   *)
(* steps, one per storage statement or clock read, and the steps of        *)
(* different workers interleave.                                           *)
(***************************************************************************)
EXTENDS Integers, Sequences, FiniteSets, TLC

\* ---------------------------------------------------------------- bounds
MaxClock == 1          \* the clock runs over seconds 0..MaxClock
MaxRequests == 2       \* number of requests ever received

\* ------------------------------------------------------- program constants
MinTitleLen == 1
MaxTitleLen == 200

Workers == {1, 2}

\* ---------------------------------------------------------------- inputs
\* Strings are kept in run-length form: Rep(c, n) is the character c repeated n times.
Rep(c, n) == IF n = 0 THEN <<>> ELSE <<[c |-> c, n |-> n]>>

\* len(s)
RECURSIVE StrLen(_)
StrLen(s) == IF s = <<>> THEN 0 ELSE s[1].n + StrLen(Tail(s))

\* Optional[T]: None is the empty sequence, a supplied value v is <<v>>.
None == <<>>
Some(v) == <<v>>

\* Titles: empty, one blank, longest allowed, one too long.
TitleInputs == {Rep("a", 0), Rep(" ", 1), Rep("a", MaxTitleLen), Rep("a", MaxTitleLen + 1)}
ContentInputs == {"", "x"}
\* Path ids: every id issued so far and one that was never issued.
IdInputs(s) == 1..(s + 1)

\* Request bodies as received, before validation.
NoteCreate == [title : TitleInputs, content : ContentInputs]
NoteUpdate ==
    [title : {None} \cup {Some(t) : t \in TitleInputs},
     content : {None} \cup {Some(c) : c \in ContentInputs}]

\* --------------------------------------------------------------- schemas
\* Field(min_length=1, max_length=200) on a str: the length of the value as given.
\* (variant: max_length left out)
ValidTitleNoMax(t) == StrLen(t) >= MinTitleLen
ValidTitle(t) == StrLen(t) >= MinTitleLen /\ StrLen(t) <= MaxTitleLen

\* NoteCreate: title and content required; content min_length=0 (any str).
ValidCreate(p) == ValidTitle(p.title)

\* NoteUpdate: both optional; the constraint applies to a supplied title only.
ValidUpdate(p) == p.title = None \/ ValidTitle(p.title[1])

\* -------------------------------------------------------------------- db
Max(a, b) == IF a >= b THEN a ELSE b

MaxRowid(tbl) == IF DOMAIN tbl = {} THEN 0
                 ELSE CHOOSE i \in DOMAIN tbl : \A j \in DOMAIN tbl : j <= i

\* INTEGER PRIMARY KEY without AUTOINCREMENT: one more than the largest rowid present.
NextIdReuse(tbl, s) == MaxRowid(tbl) + 1
\* INTEGER PRIMARY KEY AUTOINCREMENT: one more than the largest rowid ever used.
NextId(tbl, s) == Max(s, MaxRowid(tbl)) + 1

\* ------------------------------------------------------------ repository
VARIABLES
    notes,     \* the table: rowid -> row
    seq,       \* sqlite_sequence: the largest rowid ever assigned
    issued,    \* history: every id an INSERT has returned as lastrowid
    clock,     \* utc_now_iso(): UTC time cut to whole seconds
    received,  \* number of requests received so far
    capacity,  \* how many requests the thread pool serves at once
    req,       \* per worker: the request it serves and its local variables
    out        \* the response sent by the step just taken, if any

vars == <<notes, seq, issued, clock, received, capacity, req, out>>

NoteRead(id, title, content, created_at, updated_at) ==
    [id |-> id, title |-> title, content |-> content,
     created_at |-> created_at, updated_at |-> updated_at]

\* SELECT ... WHERE id = ?; fetchone(); _row_to_note(row) if row else None
get_note(tbl, id) == IF id \in DOMAIN tbl THEN Some(tbl[id]) ELSE None

\* ORDER BY updated_at DESC, id DESC
\* (variant: ORDER BY updated_at DESC, id ASC)
BeforeTiesAsc(a, b) ==
    a.updated_at > b.updated_at \/ (a.updated_at = b.updated_at /\ a.id < b.id)
Before(a, b) ==
    a.updated_at > b.updated_at \/ (a.updated_at = b.updated_at /\ a.id > b.id)

RECURSIVE OrderBy(_)
OrderBy(rows) ==
    IF rows = {} THEN <<>>
    ELSE LET first == CHOOSE r \in rows : \A o \in rows \ {r} : Before(r, o)
         IN  <<first>> \o OrderBy(rows \ {first})

\* SELECT ... FROM notes ORDER BY ...; fetchall()
list_notes(tbl) == OrderBy({tbl[i] : i \in DOMAIN tbl})

\* CREATE TABLE IF NOT EXISTS: a table left by an earlier run is kept. The database
\* file is new, or holds one note created at second 0.
Stored(k) == [i \in 1..k |-> NoteRead(i, Rep("a", MaxTitleLen), "x", 0, 0)]
StartsWith == {0, 1}

\* INSERT INTO notes (title, content, created_at, updated_at) VALUES (?, ?, now, now)
InsertRow(tbl, id, p, now) == tbl @@ (id :> NoteRead(id, p.title, p.content, now, now))

\* UPDATE notes SET title = ?, content = ?, updated_at = ? WHERE id = ?
\* (variant: SET ... created_at = ? in place of updated_at)
UpdateRowWrongColumn(tbl, id, title, content, now) ==
    IF id \in DOMAIN tbl
    THEN [tbl EXCEPT ![id].title = title, ![id].content = content, ![id].created_at = now]
    ELSE tbl
UpdateRow(tbl, id, title, content, now) ==
    IF id \in DOMAIN tbl
    THEN [tbl EXCEPT ![id].title = title, ![id].content = content, ![id].updated_at = now]
    ELSE tbl

\* new_title = payload.title if payload.title is not None else existing.title
NewTitle(payload, existing) ==
    IF payload.title # None THEN payload.title[1] ELSE existing.title

\* new_content = payload.content if payload.content is not None else existing.content
\* (variant: an absent content clears the stored one)
NewContentOverwrites(payload, existing) ==
    IF payload.content # None THEN payload.content[1] ELSE ""
NewContent(payload, existing) ==
    IF payload.content # None THEN payload.content[1] ELSE existing.content

\* DELETE FROM notes WHERE id = ?
DeleteRow(tbl, id) == [i \in DOMAIN tbl \ {id} |-> tbl[i]]
\* cur.rowcount > 0
\* (variant: cur.rowcount >= 0)
RowDeletedAlways(tbl, id) == TRUE
RowDeleted(tbl, id) == id \in DOMAIN tbl

\* ------------------------------------------------------------- workers
NoPayload == [title |-> None, content |-> None]

\* A worker's locals; new_title, new_content and now are dropped after their last use.
Idle == [pc |-> "idle", id |-> 0, payload |-> NoPayload,
         new_title |-> None, new_content |-> None, now |-> 0]

\* No response: the step just taken did not complete a request.
Silent == [op |-> "none", id |-> 0, payload |-> NoPayload, status |-> 0,
           body |-> None, items |-> <<>>]

\* payload: the rejected field of a 422 response
Response(op, id, payload, status, body) ==
    [op |-> op, id |-> id, payload |-> payload, status |-> status,
     body |-> body, items |-> <<>>]

InFlight == {w \in Workers : req[w].pc # "idle"}

\* A request is taken by the first idle worker while the pool has room.
Admit(w) ==
    /\ req[w].pc = "idle"
    /\ \A v \in Workers : req[v].pc = "idle" => w <= v
    /\ Cardinality(InFlight) < capacity
    /\ received < MaxRequests

Init ==
    /\ \E k \in StartsWith :
           /\ notes = Stored(k)
           /\ seq = k
           /\ issued = 1..k
    /\ clock = 0
    /\ received = 0
    /\ capacity = Cardinality(Workers)
    /\ req = [w \in Workers |-> Idle]
    /\ out = Silent

Tick ==
    /\ clock < MaxClock
    /\ clock' = clock + 1
    /\ out' = Silent
    /\ UNCHANGED <<received, notes, seq, issued, capacity, req>>

\* GET /notes
list_notes_route(w) ==
    /\ Admit(w)
    /\ out' = [Response("list", 0, NoPayload, 200, None) EXCEPT !.items = list_notes(notes)]
    /\ received' = received + 1
    /\ UNCHANGED <<notes, seq, issued, clock, capacity, req>>

\* GET /notes/{note_id}
get_note_route(w) ==
    /\ Admit(w)
    /\ \E id \in IdInputs(seq) :
           LET note == get_note(notes, id)
           IN  out' = Response("get", id, NoPayload, IF note = None THEN 404 ELSE 200, note)
    /\ received' = received + 1
    /\ UNCHANGED <<notes, seq, issued, clock, capacity, req>>

\* DELETE /notes/{note_id}
delete_note_route(w) ==
    /\ Admit(w)
    /\ \E id \in IdInputs(seq) :
           LET ok == RowDeleted(notes, id)
           IN  /\ out' = Response("delete", id, NoPayload, IF ok THEN 204 ELSE 404, None)
               /\ notes' = DeleteRow(notes, id)
    /\ received' = received + 1
    /\ UNCHANGED <<seq, issued, clock, capacity, req>>

\* POST /notes: body validation, then create_note up to now = utc_now_iso()
create_note_route(w, p) ==
    /\ Admit(w)
    /\ LET payload == [title |-> Some(p.title), content |-> Some(p.content)]
       IN  IF ValidCreate(p)
           THEN /\ req' = [req EXCEPT ![w] = [Idle EXCEPT !.pc = "c_insert",
                                                          !.payload = payload,
                                                          !.now = clock]]
                /\ out' = Silent
           ELSE /\ req' = req
                /\ out' = Response("create", 0, [NoPayload EXCEPT !.title = payload.title],
                                   422, None)
    /\ received' = received + 1
    /\ UNCHANGED <<notes, seq, issued, clock, capacity>>

\* create_note: INSERT, commit, note_id = cur.lastrowid
create_note_insert(w) ==
    /\ req[w].pc = "c_insert"
    /\ LET id == NextId(notes, seq)
           p == [title |-> req[w].payload.title[1], content |-> req[w].payload.content[1]]
       IN  /\ notes' = InsertRow(notes, id, p, req[w].now)
           /\ seq' = Max(seq, id)
           /\ issued' = issued \cup {id}
           /\ req' = [req EXCEPT ![w].pc = "c_reread", ![w].id = id, ![w].now = 0]
    /\ out' = Silent
    /\ UNCHANGED <<clock, received, capacity>>

\* create_note: created = get_note(note_id); assert created is not None; 201.
\* A failed assert is an AssertionError the route does not handle: 500.
create_note_reread(w) ==
    /\ req[w].pc = "c_reread"
    /\ LET created == get_note(notes, req[w].id)
       IN  out' = Response("create", req[w].id, NoPayload,
                           IF created = None THEN 500 ELSE 201, created)
    /\ req' = [req EXCEPT ![w] = Idle]
    /\ UNCHANGED <<notes, seq, issued, clock, received, capacity>>

\* PUT /notes/{note_id}: body validation, then update_note up to new_content
update_note_route(w, p) ==
    /\ Admit(w)
    /\ \E id \in IdInputs(seq) :
           LET existing == get_note(notes, id)
           IN  IF ~ValidUpdate(p)
               THEN /\ req' = req
                    /\ out' = Response("put", 0, [NoPayload EXCEPT !.title = p.title],
                                       422, None)
               ELSE IF existing = None
               THEN /\ req' = req
                    /\ out' = Response("put", id, NoPayload, 404, None)
               ELSE /\ req' = [req EXCEPT ![w] =
                                [Idle EXCEPT !.pc = "u_now", !.id = id, !.payload = p,
                                             !.new_title = Some(NewTitle(p, existing[1])),
                                             !.new_content = Some(NewContent(p, existing[1]))]]
                    /\ out' = Silent
    /\ received' = received + 1
    /\ UNCHANGED <<notes, seq, issued, clock, capacity>>

\* update_note: now = utc_now_iso()
update_note_now(w) ==
    /\ req[w].pc = "u_now"
    /\ req' = [req EXCEPT ![w].pc = "u_write", ![w].now = clock]
    /\ out' = Silent
    /\ UNCHANGED <<notes, seq, issued, clock, received, capacity>>

\* update_note: UPDATE, commit
update_note_write(w) ==
    /\ req[w].pc = "u_write"
    /\ notes' = UpdateRow(notes, req[w].id, req[w].new_title[1], req[w].new_content[1],
                          req[w].now)
    /\ req' = [req EXCEPT ![w].pc = "u_reread", ![w].new_title = None,
                           ![w].new_content = None, ![w].now = 0]
    /\ out' = Silent
    /\ UNCHANGED <<seq, issued, clock, received, capacity>>

\* update_note: updated = get_note(note_id); assert updated is not None; 200.
\* A failed assert is an AssertionError the route does not handle: 500.
update_note_reread(w) ==
    /\ req[w].pc = "u_reread"
    /\ LET updated == get_note(notes, req[w].id)
       IN  out' = Response("put", req[w].id, NoPayload,
                           IF updated = None THEN 500 ELSE 200, updated)
    /\ req' = [req EXCEPT ![w] = Idle]
    /\ UNCHANGED <<notes, seq, issued, clock, received, capacity>>

Next ==
    \/ Tick
    \/ \E w \in Workers : list_notes_route(w)
    \/ \E w \in Workers : get_note_route(w)
    \/ \E w \in Workers : delete_note_route(w)
    \/ \E w \in Workers : \E p \in NoteCreate : create_note_route(w, p)
    \/ \E w \in Workers : create_note_insert(w)
    \/ \E w \in Workers : create_note_reread(w)
    \/ \E w \in Workers : \E p \in NoteUpdate : update_note_route(w, p)
    \/ \E w \in Workers : update_note_now(w)
    \/ \E w \in Workers : update_note_write(w)
    \/ \E w \in Workers : update_note_reread(w)

\* Requests served concurrently by the thread pool.
Spec == Init /\ [][Next]_vars

\* One request at a time.
InitSeq ==
    /\ \E k \in StartsWith :
           /\ notes = Stored(k)
           /\ seq = k
           /\ issued = 1..k
    /\ clock = 0
    /\ received = 0
    /\ capacity = 1
    /\ req = [w \in Workers |-> Idle]
    /\ out = Silent

SpecSeq == InitSeq /\ [][Next]_vars

\* ------------------------------------------------------------ properties
\* The step a worker takes, read off its position before and after.
InsertStep(w) == req[w].pc = "c_insert" /\ req'[w].pc = "c_reread"
CreatedStep(w) == req[w].pc = "c_reread" /\ req'[w].pc = "idle"
WriteStep(w) == req[w].pc = "u_write" /\ req'[w].pc = "u_reread"
UpdatedStep(w) == req[w].pc = "u_reread" /\ req'[w].pc = "idle"
\* A request was received in this step and answered at once with out'.
Answered(op) == received' = received + 1 /\ out'.op = op

Rows(tbl) == {tbl[i] : i \in DOMAIN tbl}
InRange(n) == n >= MinTitleLen /\ n <= MaxTitleLen

\* str.strip() on a run-length string: leading and trailing runs of blanks removed
RECURSIVE LStrip(_)
LStrip(s) == IF s = <<>> THEN <<>> ELSE IF s[1].c = " " THEN LStrip(Tail(s)) ELSE s
RECURSIVE RStrip(_)
RStrip(s) ==
    IF s = <<>> THEN <<>>
    ELSE IF s[Len(s)].c = " " THEN RStrip(SubSeq(s, 1, Len(s) - 1)) ELSE s
Strip(s) == RStrip(LStrip(s))

\* C1: with one request at a time, the UPDATE of update_note on an existing note sets
\* title to the supplied title, else keeps the stored one; likewise content; sets
\* updated_at to the time the call read, which is not before the stored updated_at;
\* keeps id and created_at and every other note; and the call returns 200 with the
\* row as stored afterwards.
C1_PartialUpdate ==
    [][\A w \in Workers :
         /\ WriteStep(w) =>
              LET id == req[w].id
                  p == req[w].payload
              IN  /\ id \in DOMAIN notes /\ DOMAIN notes' = DOMAIN notes
                  /\ notes'[id].title =
                         IF p.title # None THEN p.title[1] ELSE notes[id].title
                  /\ notes'[id].content =
                         IF p.content # None THEN p.content[1] ELSE notes[id].content
                  /\ notes'[id].updated_at = req[w].now
                  /\ notes'[id].updated_at >= notes[id].updated_at
                  /\ notes'[id].updated_at <= clock
                  /\ notes'[id].id = notes[id].id
                  /\ notes'[id].created_at = notes[id].created_at
                  /\ \A j \in DOMAIN notes \ {id} : notes'[j] = notes[j]
         /\ UpdatedStep(w) =>
              /\ out'.op = "put" /\ out'.status = 200
              /\ req[w].id \in DOMAIN notes'
              /\ out'.body = Some(notes'[req[w].id])
              /\ notes' = notes
    ]_vars

\* C1 witness: an update that supplied only a title has written: the title is the
\* supplied one, the content is the one stored before, updated_at has moved on.
C1_Witness ==
    \E w \in Workers :
        /\ req[w].pc = "u_reread"
        /\ req[w].payload.title = Some(Rep(" ", 1))
        /\ req[w].payload.content = None
        /\ req[w].id \in DOMAIN notes
        /\ notes[req[w].id].title = Rep(" ", 1)
        /\ notes[req[w].id].content = "x"
        /\ notes[req[w].id].updated_at > notes[req[w].id].created_at

\* C2: every create_note returns 201 with a record that carries the supplied title and
\* content, has created_at = updated_at, and equals what get_note returns for its id,
\* whatever other requests are in flight.
C2_CreateReturnsWhatItPersisted ==
    [][\A w \in Workers :
         CreatedStep(w) =>
           /\ out'.status = 201
           /\ out'.body # None
           /\ out'.body[1].title = req[w].payload.title[1]
           /\ out'.body[1].content = req[w].payload.content[1]
           /\ out'.body[1].created_at = out'.body[1].updated_at
           /\ get_note(notes', req[w].id) = out'.body
    ]_vars

\* C3: DELETE answers 204 exactly when a row with that id was stored, else 404; after
\* it the id is absent from get_note and from list_notes, every other note is as it
\* was, and a 404 leaves the table as it was.
C3_Delete ==
    [][Answered("delete") =>
         LET id == out'.id
             listed == list_notes(notes')
         IN  /\ out'.status \in {204, 404}
             /\ (out'.status = 204) <=> (id \in DOMAIN notes)
             /\ get_note(notes', id) = None
             /\ \A i \in 1..Len(listed) : listed[i].id # id
             /\ DOMAIN notes' = DOMAIN notes \ {id}
             /\ \A j \in DOMAIN notes \ {id} : notes'[j] = notes[j]
             /\ (out'.status = 404) => (notes' = notes)
    ]_vars

\* C3 witness: a delete has removed a note and another note is still stored.
C3_Witness ==
    /\ out.op = "delete" /\ out.status = 204
    /\ out.id \notin DOMAIN notes
    /\ DOMAIN notes # {}

\* C4: a GET, PUT or DELETE is answered 200, 204 or 404 (or 422 for a rejected body),
\* never by an unhandled exception, and a 200 carries the note.
C4_MissingRowIs404 ==
    out.op \in {"get", "put", "delete"} =>
        /\ out.status \in {200, 204, 404, 422}
        /\ (out.status = 200) <=> (out.body # None)

\* C5: the answer to GET /notes holds exactly the stored notes, each once, ordered by
\* updated_at descending and, among equal updated_at, by id descending.
C5_ListOrdered ==
    out.op = "list" =>
        /\ out.status = 200
        /\ Len(out.items) = Cardinality(DOMAIN notes)
        /\ {out.items[i] : i \in 1..Len(out.items)} = Rows(notes)
        /\ \A i, j \in 1..Len(out.items) :
              i < j =>
                \/ out.items[i].updated_at > out.items[j].updated_at
                \/ /\ out.items[i].updated_at = out.items[j].updated_at
                   /\ out.items[i].id > out.items[j].id

\* C5 witness: a list of two notes with equal updated_at, the larger id first.
C5_Witness ==
    /\ out.op = "list"
    /\ Len(out.items) = 2
    /\ out.items[1].updated_at = out.items[2].updated_at
    /\ out.items[1].id > out.items[2].id

\* C6: every stored note has updated_at >= created_at.
C6_UpdatedNotBeforeCreated ==
    \A id \in DOMAIN notes : notes[id].updated_at >= notes[id].created_at

\* C6 witness: a note updated in a later second than it was created in, while another
\* request is in flight.
C6_Witness ==
    /\ \E id \in DOMAIN notes : notes[id].updated_at > notes[id].created_at
    /\ InFlight # {}

\* C7: a row's id is its key and never changes, nor does its created_at; an id given
\* to a new note is greater than every id given before, deleted or not.
C7_IdUniqueStable ==
    [][/\ \A id \in DOMAIN notes' : notes'[id].id = id
       /\ \A id \in DOMAIN notes \cap DOMAIN notes' :
             notes'[id].created_at = notes[id].created_at
       /\ \A id \in DOMAIN notes' \ DOMAIN notes :
             /\ \A j \in issued : id > j
             /\ \E w \in Workers : InsertStep(w) /\ req'[w].id = id
    ]_vars

\* C7 witness: note 1 has been deleted and a note created after it holds id 2.
C7_Witness ==
    /\ 1 \in issued
    /\ DOMAIN notes = {2}

\* C8 as stated: a create is accepted only with a title whose trimmed length is in
\* 1..200, an update only with no title or one whose length is in 1..200.
C8_TrimmedTitleValidated ==
    \A w \in Workers :
        /\ req[w].pc \in {"c_insert", "c_reread"} =>
              InRange(StrLen(Strip(req[w].payload.title[1])))
        /\ req[w].pc \in {"u_now", "u_write", "u_reread"} /\ req[w].payload.title # None =>
              InRange(StrLen(req[w].payload.title[1]))

\* C8 amended: a create is accepted only with a title whose length as given is in
\* 1..200, an update only with no title or one whose length is in 1..200; a 422 is the
\* answer to a title outside that range and changes neither the table nor any request
\* in flight; every stored title has a length in 1..200.
C8_TitleLengthValidated ==
    [][/\ \A w \in Workers :
             /\ req'[w].pc \in {"c_insert", "c_reread"} =>
                   InRange(StrLen(req'[w].payload.title[1]))
             /\ req'[w].pc \in {"u_now", "u_write", "u_reread"}
                  /\ req'[w].payload.title # None =>
                   InRange(StrLen(req'[w].payload.title[1]))
       /\ out'.status = 422 =>
             /\ ~InRange(StrLen(out'.payload.title[1]))
             /\ notes' = notes /\ seq' = seq /\ req' = req
       /\ \A id \in DOMAIN notes' : InRange(StrLen(notes'[id].title))
    ]_vars

\* C8 witness: a title of 201 characters has just been rejected while a title of one
\* blank, accepted earlier, is stored.
C8_Witness ==
    /\ out.status = 422
    /\ StrLen(out.payload.title[1]) = MaxTitleLen + 1
    /\ \E id \in DOMAIN notes : notes[id].title = Rep(" ", 1)

\* C9: the UPDATE of update_note leaves a field its payload does not supply at the
\* value stored at the moment of the write.
C9_UnsuppliedFieldKeepsStored ==
    [][\A w \in Workers :
         WriteStep(w) /\ req[w].id \in DOMAIN notes =>
           /\ req[w].payload.title = None =>
                 notes'[req[w].id].title = notes[req[w].id].title
           /\ req[w].payload.content = None =>
                 notes'[req[w].id].content = notes[req[w].id].content
    ]_vars

\* C10: the stored updated_at of a note never decreases.
C10_UpdatedAtMonotone ==
    [][\A id \in DOMAIN notes \cap DOMAIN notes' :
         notes'[id].updated_at >= notes[id].updated_at
    ]_vars

====
